---- MODULE Spec2Model ----
(***************************************************************************)
(* BlendedMegatronDatasetBuilder                                           *)
(* (finetune/core/datasets/blended_megatron_dataset_builder.py).           *)
(*                                                                         *)
(* Every rank of a process group runs build().  The local code of a rank   *)
(* is a small-step machine over the locations of the source (LocalStep),   *)
(* run to the next build_generic_dataset call (Run).  The steps of         *)
(* build_generic_dataset that other ranks can observe (a builder starting  *)
(* and finishing on the shared cache, the arrival at the barrier, its      *)
(* release) are the actions of the specification.                          *)
(*                                                                         *)
(* Numbers: a weight is an integer token of the blend, a normalized weight *)
(* the pair <<w, sum>>, a split ratio a pair of tenths; products, ceil and *)
(* round are computed exactly on these rationals (the source computes them *)
(* in binary floating point).                                              *)
(***************************************************************************)
EXTENDS Integers, Sequences, FiniteSets, TLC

\* ---------------------------------------------------------------- bounds
NumRanks == 2        \* size of the process group
MaxFlips == 1        \* times is_built_on_rank changes its answer, all ranks together
MaxWeight == 3       \* largest raw weight of the allocation inputs
MaxElements == 12    \* largest element count of the split-range inputs
RatioDen == 10       \* split ratios are multiples of 1 / RatioDen
MaxBlendLen == 4     \* most tokens in the shared blend

\* ---------------------------------------------------- program constants
NumSplits == 3       \* len(Split): train, valid, test
MarginNum == 1005    \* the 1.005 target margin, in thousandths
MarginDen == 1000

Ranks == 0 .. (NumRanks - 1)
Splits == 1 .. NumSplits

None == [kind |-> "None"]
IsNone(x) == x.kind = "None"

\* ------------------------------------------------------------ arithmetic
RECURSIVE SumSeq(_)
SumSeq(s) == IF s = <<>> THEN 0 ELSE s[1] + SumSeq(Tail(s))

\* math.ceil(num / den), den > 0
CeilDiv(num, den) == -((-num) \div den)

\* round(num / den), den > 0, num >= 0: Python 3 rounds halves to even
RoundDiv(num, den) ==
    LET q == num \div den
        r == num % den
    IN  IF 2 * r < den THEN q
        ELSE IF 2 * r > den THEN q + 1
        ELSE IF q % 2 = 0 THEN q ELSE q + 1

\* ------------------------------------------------- WeightAllocator
\* blend[i], blend[i + 1] for i in range(0, len(blend), 2): the tokens of a
\* blend alternate weight, prefix; an odd length indexes past the end.
ParseOk(blend) == Len(blend) % 2 = 0

BlendWeights(blend) == [k \in 1 .. (Len(blend) \div 2) |-> blend[2 * k - 1]]

BlendPrefixes(blend) == [k \in 1 .. (Len(blend) \div 2) |-> blend[2 * k]]

\* normalize(weights) of core.datasets.utils: refuses a zero sum and a
\* non-positive weight, else divides every weight by the sum.
NormalizeOk(weights) ==
    /\ SumSeq(weights) # 0
    /\ \A k \in DOMAIN weights : weights[k] > 0

Normalize(weights) ==
    [k \in DOMAIN weights |-> <<weights[k], SumSeq(weights)>>]

\* int() in place of math.ceil: the product is truncated
AllocatedSizeTruncated(target, weight) ==
    (target * weight[1] * MarginNum) \div (weight[2] * MarginDen)

\* int(math.ceil(target_num_samples * weight * 1.005))
AllocatedSize(target, weight) ==
    CeilDiv(target * weight[1] * MarginNum, weight[2] * MarginDen)

SizesPerDataset(weights, targets) ==
    [d \in DOMAIN weights |->
        [s \in DOMAIN targets |-> AllocatedSize(targets[s], weights[d])]]

\* _get_prefixes_weights_and_sizes_for_blend; ok is FALSE where it raises
GetPrefixesWeightsAndSizes(blend, targets) ==
    IF ~ParseOk(blend) \/ ~NormalizeOk(BlendWeights(blend))
    THEN [ok |-> FALSE, prefixes |-> <<>>, weights |-> <<>>, sizes |-> <<>>]
    ELSE [ok |-> TRUE,
          prefixes |-> BlendPrefixes(blend),
          weights |-> Normalize(BlendWeights(blend)),
          sizes |-> SizesPerDataset(Normalize(BlendWeights(blend)), targets)]

\* the size of a composite is the size allocated to its first dataset
SizePerSplitFirst(sizes) == [s \in Splits |-> sizes[1][s]]

\* list(map(sum, zip(*sizes_per_dataset)))
SizePerSplit(sizes) ==
    [s \in Splits |-> SumSeq([d \in DOMAIN sizes |-> sizes[d][s]])]

\* ------------------------------------------------------- SplitIndexer
\* beg = int(round(split[i][0] * float(num_elements))), end likewise
RangeBeg(ratio, n) == RoundDiv(ratio[1] * n, RatioDen)

\* the end of a range rounded up, its begin rounded to nearest
RangeEndCeil(ratio, n) == CeilDiv(ratio[2] * n, RatioDen)

RangeEnd(ratio, n) == RoundDiv(ratio[2] * n, RatioDen)

\* split_indices of _build_megatron_dataset_splits: numpy.arange(beg, end)
\* as <<beg, end>>, None for an absent ratio or an absent indexed dataset
SplitIndices(indexed, split) ==
    [i \in Splits |->
        IF IsNone(indexed) \/ split[i] = <<>>
        THEN None
        ELSE [kind |-> "Range",
              beg |-> RangeBeg(split[i], indexed.n),
              end |-> RangeEnd(split[i], indexed.n)]]

\* the indices numpy.arange(start=beg, stop=end, step=1) holds
RangeSet(r) == {x \in r.beg .. (r.end - 1) : TRUE}

\* ------------------------------------------------------------- state
VARIABLES
    config,    \* what the builder was constructed with, and whether
               \* torch.distributed.is_initialized()
    loc,       \* per rank: location and local variables of build()
    pred,      \* per rank: the last answer of is_built_on_rank
    flips,     \* times an answer of is_built_on_rank differed from the last
    cache,     \* the data cache: artifacts being written, artifacts complete
    hist,      \* per rank: calls entered, barriers entered, last call's record
    released,  \* number of barriers that have let the ranks through
    pin, pout  \* input and result of the pure functions

vars == <<config, loc, pred, flips, cache, hist, released, pin, pout>>

\* Mode A: config.blend is set; Mode B: config.blend_per_split is used
ModeA == config.blend # <<>>

\* every split is given the whole dataset
SplitSpoofEverySplit(i) == [s \in Splits |-> <<0, RatioDen>>]

\* split_spoof and sizes_spoof of the blend_per_split branch
SplitSpoof(i) == [s \in Splits |-> IF s = i THEN <<0, RatioDen>> ELSE <<>>]

SizesSpoof(i) == [s \in Splits |-> IF s = i THEN config.sizes[s] ELSE 0]

\* the blend in hand, and what _get_prefixes_weights_and_sizes_for_blend
\* returned for it
CurBlend(l) == IF ModeA THEN config.blend ELSE config.blend_per_split[l.i]

CurTargets(l) == IF ModeA THEN config.sizes ELSE SizesSpoof(l.i)

CurAlloc(l) == GetPrefixesWeightsAndSizes(CurBlend(l), CurTargets(l))

\* the arguments of the _build_megatron_dataset_splits call in progress
MPrefix(l) ==
    CASE l.frame = "A_single" -> config.blend[1]
      [] l.frame = "A_multi"  -> CurAlloc(l).prefixes[l.i]
      [] l.frame = "B_single" -> config.blend_per_split[l.i][1]
      [] l.frame = "B_multi"  -> CurAlloc(l).prefixes[l.j]

\* the path of a blend of length 1 gives every defined split the whole
\* dataset
MSplitSingleWhole(l) ==
    IF l.frame = "A_single"
    THEN [s \in Splits |-> IF config.split[s] = <<>> THEN <<>>
                                                     ELSE <<0, RatioDen>>]
    ELSE IF ModeA THEN config.split ELSE SplitSpoof(l.i)

MSplit(l) == IF ModeA THEN config.split ELSE SplitSpoof(l.i)

MSizes(l) ==
    CASE l.frame = "A_single" -> config.sizes
      [] l.frame = "A_multi"  -> CurAlloc(l).sizes[l.i]
      [] l.frame = "B_single" -> SizesSpoof(l.i)
      [] l.frame = "B_multi"  -> CurAlloc(l).sizes[l.j]

\* indexed_dataset.sequence_lengths.shape[0], or
\* indexed_dataset.document_indices.shape[0] - 1
ElementCount(prefix) == 5 * prefix + 5

\* is_none = map(lambda _: _ is None, megatron_datasets[i]): an iterator
IsNoneMap(lst) == [k \in DOMAIN lst |-> IsNone(lst[k])]

\* all(it) stops at the first false item, which it has consumed
FirstFalse(flags) ==
    IF \A k \in DOMAIN flags : flags[k]
    THEN Len(flags) + 1
    ELSE CHOOSE k \in DOMAIN flags :
            /\ ~flags[k]
            /\ \A h \in 1 .. (k - 1) : flags[h]

PyAll(flags) == FirstFalse(flags) > Len(flags)

\* what is left of the iterator after all(it)
RestAfterAll(flags) == SubSeq(flags, FirstFalse(flags) + 1, Len(flags))

PyAny(flags) == \E k \in DOMAIN flags : flags[k]

\* assert all(is_none)
AssertAllNone(lst) == PyAll(IsNoneMap(lst))

\* assert all(is_none) or not any(is_none), on the one iterator
AssertNullConsistent(lst) ==
    \/ PyAll(IsNoneMap(lst))
    \/ ~PyAny(RestAfterAll(IsNoneMap(lst)))

\* ----------------------------------------------- the local code of a rank
InitLocal ==
    [pc |-> "L70", frame |-> "", cont |-> "", i |-> 0, j |-> 0, m |-> 0,
     indexed |-> None, mds |-> <<>>, lists |-> <<>>, out |-> <<>>,
     call |-> None, dataset |-> None, access |-> "", err |-> ""]

Raise(l, e) == [l EXCEPT !.pc = "raised", !.err = e]

\* self.build_generic_dataset(cls, self.config.is_built_on_rank, *args):
\* obj is what cls(*args) constructs
CallGeneric(l, obj, cont) ==
    [l EXCEPT !.pc = "call", !.cont = cont, !.call = obj, !.dataset = None]

\* lines 70-85 and 120-121: entry of _build_blended_dataset_splits
StepEntry(l) ==
    IF ModeA
    THEN IF Len(config.blend) = 1
         THEN [l EXCEPT !.pc = "M187", !.frame = "A_single"]
         ELSE IF ~CurAlloc(l).ok
              THEN Raise(l, "config")
              ELSE [l EXCEPT !.pc = "L87", !.i = 1,
                             !.lists = [s \in Splits |-> <<>>]]
    ELSE [l EXCEPT !.pc = "L122", !.i = 1, !.out = <<>>]

\* lines 87-97: the loop over the datasets of the blend
StepDatasetLoop(l) ==
    IF l.i > Len(CurAlloc(l).prefixes)
    THEN [l EXCEPT !.pc = "L99", !.i = 1, !.out = <<>>]
    ELSE [l EXCEPT !.pc = "M187", !.frame = "A_multi"]

\* lines 187-189: the indexed dataset of _build_megatron_dataset_splits
StepIndexedCall(l) ==
    CallGeneric(l, [kind |-> "Indexed", prefix |-> MPrefix(l),
                    n |-> ElementCount(MPrefix(l))], "M191")

\* lines 191-210
StepIndexedDone(l) ==
    [l EXCEPT !.pc = "M211", !.indexed = l.dataset, !.mds = <<>>, !.m = 1]

\* the views of a dataset are put in front of those of the datasets
\* before it
StepSplitsReturnPrepend(l) ==
    CASE l.frame = "A_single" ->
            [l EXCEPT !.pc = "returned", !.out = l.mds]
      [] l.frame = "A_multi" ->
            [l EXCEPT !.pc = "L87", !.i = l.i + 1,
                      !.lists = [s \in Splits |-> <<l.mds[s]>> \o l.lists[s]]]
      [] l.frame = "B_single" ->
            [l EXCEPT !.pc = "L122", !.i = l.i + 1,
                      !.out = Append(l.out, l.mds[l.i])]
      [] l.frame = "B_multi" ->
            [l EXCEPT !.pc = "L150", !.j = l.j + 1,
                      !.lists = <<l.mds[l.i]>> \o l.lists]

\* line 227 and what the caller does with the list returned
StepSplitsReturn(l) ==
    CASE l.frame = "A_single" ->
            [l EXCEPT !.pc = "returned", !.out = l.mds]
      [] l.frame = "A_multi" ->
            [l EXCEPT !.pc = "L87", !.i = l.i + 1,
                      !.lists = [s \in Splits |-> Append(l.lists[s], l.mds[s])]]
      [] l.frame = "B_single" ->
            [l EXCEPT !.pc = "L122", !.i = l.i + 1,
                      !.out = Append(l.out, l.mds[l.i])]
      [] l.frame = "B_multi" ->
            [l EXCEPT !.pc = "L150", !.j = l.j + 1,
                      !.lists = Append(l.lists, l.mds[l.i])]

\* a split view is not asked for when the indexed dataset is absent
StepSplitLoopSkipAbsent(l) ==
    IF l.m > NumSplits
    THEN StepSplitsReturn(l)
    ELSE IF MSplit(l)[l.m] = <<>> \/ IsNone(l.indexed)
         THEN [l EXCEPT !.mds = Append(l.mds, None), !.m = l.m + 1]
         ELSE CallGeneric(l,
                [kind |-> "View", indexed |-> l.indexed,
                 indices |-> SplitIndices(l.indexed, MSplit(l))[l.m],
                 size |-> MSizes(l)[l.m], split |-> l.m],
                "M215")

\* lines 211-225: the loop over the splits of one indexed dataset
StepSplitLoop(l) ==
    IF l.m > NumSplits
    THEN StepSplitsReturn(l)
    ELSE IF MSplit(l)[l.m] = <<>>
         THEN [l EXCEPT !.mds = Append(l.mds, None), !.m = l.m + 1]
         ELSE CallGeneric(l,
                [kind |-> "View", indexed |-> l.indexed,
                 indices |-> SplitIndices(l.indexed, MSplit(l))[l.m],
                 size |-> MSizes(l)[l.m], split |-> l.m],
                "M215")

StepSplitDone(l) ==
    [l EXCEPT !.pc = "M211", !.mds = Append(l.mds, l.dataset), !.m = l.m + 1]

\* BlendedDataset(megatron_datasets, weight_per_dataset, size, config)
Blended(l, members, s) ==
    [kind |-> "Blended", datasets |-> members, weights |-> CurAlloc(l).weights,
     size |-> SizePerSplit(CurAlloc(l).sizes)[s]]

\* a split whose shared ratio is absent gets no entry in the list returned
StepBlendLoopNoEntry(l) ==
    IF l.i > NumSplits
    THEN [l EXCEPT !.pc = "returned"]
    ELSE IF config.split[l.i] = <<>>
         THEN IF AssertAllNone(l.lists[l.i])
              THEN [l EXCEPT !.i = l.i + 1]
              ELSE Raise(l, "assert")
         ELSE IF AssertNullConsistent(l.lists[l.i])
              THEN CallGeneric(l, Blended(l, l.lists[l.i], l.i), "L107")
              ELSE Raise(l, "assert")

\* lines 99-118: one composite per split of the shared blend
StepBlendLoop(l) ==
    IF l.i > NumSplits
    THEN [l EXCEPT !.pc = "returned"]
    ELSE IF config.split[l.i] = <<>>
         THEN IF AssertAllNone(l.lists[l.i])
              THEN [l EXCEPT !.out = Append(l.out, None), !.i = l.i + 1]
              ELSE Raise(l, "assert")
         ELSE IF AssertNullConsistent(l.lists[l.i])
              THEN CallGeneric(l, Blended(l, l.lists[l.i], l.i), "L107")
              ELSE Raise(l, "assert")

StepBlendDone(l) ==
    [l EXCEPT !.pc = "L99", !.out = Append(l.out, l.dataset), !.i = l.i + 1]

\* lines 122-147: the loop over the splits of blend_per_split
StepPerSplitLoop(l) ==
    IF l.i > NumSplits
    THEN [l EXCEPT !.pc = "returned"]
    ELSE IF CurBlend(l) = <<>>
         THEN [l EXCEPT !.out = Append(l.out, None), !.i = l.i + 1]
         ELSE IF Len(CurBlend(l)) = 1
              THEN [l EXCEPT !.pc = "M187", !.frame = "B_single"]
              ELSE IF ~CurAlloc(l).ok
                   THEN Raise(l, "config")
                   ELSE [l EXCEPT !.pc = "L150", !.j = 1, !.lists = <<>>]

\* lines 149-168
StepPerSplitDatasets(l) ==
    IF l.j > Len(CurAlloc(l).prefixes)
    THEN CallGeneric(l, Blended(l, l.lists, l.i), "L159")
    ELSE [l EXCEPT !.pc = "M187", !.frame = "B_multi"]

StepPerSplitDone(l) ==
    [l EXCEPT !.pc = "L122", !.out = Append(l.out, l.dataset), !.i = l.i + 1]

LocalStep(l) ==
    CASE l.pc = "L70"  -> StepEntry(l)
      [] l.pc = "L87"  -> StepDatasetLoop(l)
      [] l.pc = "M187" -> StepIndexedCall(l)
      [] l.pc = "M191" -> StepIndexedDone(l)
      [] l.pc = "M211" -> StepSplitLoop(l)
      [] l.pc = "M215" -> StepSplitDone(l)
      [] l.pc = "L99"  -> StepBlendLoop(l)
      [] l.pc = "L107" -> StepBlendDone(l)
      [] l.pc = "L122" -> StepPerSplitLoop(l)
      [] l.pc = "L150" -> StepPerSplitDatasets(l)
      [] l.pc = "L159" -> StepPerSplitDone(l)

\* the local code up to the next build_generic_dataset call, return or raise
RECURSIVE Run(_)
Run(l) ==
    IF l.pc \in {"call", "returned", "raised"} THEN l ELSE Run(LocalStep(l))

\* ------------------------------------------------ build_generic_dataset
\* the processes that run build(): the ranks of the group, or the one
\* process when torch.distributed is not initialized
Procs == IF config.dist THEN Ranks ELSE {0}

\* the k-th build_generic_dataset call of build() constructs artifact k
Artifact(r) == hist[r].ncall

\* cls(*args) on the data cache: an invocation that finds the artifact
\* complete reads it, any other writes it
CacheAccess(k) == IF k \in cache.complete THEN "read" ELSE "write"

\* the answers is_built_on_rank() may give on rank r now
PredValues(r) ==
    IF pred[r] = "unset" \/ flips < MaxFlips
    THEN {"true", "false"}
    ELSE {pred[r]}

Answer(r, v) ==
    /\ pred' = [pred EXCEPT ![r] = v]
    /\ flips' = IF pred[r] \in {"unset", v} THEN flips ELSE flips + 1

\* every rank builds before the barrier
IsFirstBuilderEveryRank(rank) == TRUE

\* line 256: rank == 0
IsFirstBuilder(rank) == rank = 0

\* every rank builds after the barrier, rank 0 a second time
IsLateBuilderEveryRank(rank) == TRUE

\* line 271: rank != 0
IsLateBuilder(rank) == rank # 0

\* control reaches the next build_generic_dataset call, the return of
\* build() or a raise; in a process group a rank that is not the first
\* builder goes from the entry of the call straight into the barrier
\* (lines 250-268)
Resume(r, l, h) ==
    \E n \in {Run(l)} :
        LET waits == n.pc = "call" /\ config.dist /\ ~IsFirstBuilder(r)
        IN  /\ loc' = [loc EXCEPT ![r] =
                          IF waits THEN [n EXCEPT !.pc = "barrier"] ELSE n]
            /\ hist' = [hist EXCEPT ![r] =
                          IF n.pc = "call"
                          THEN [h EXCEPT !.ncall = @ + 1, !.inv = 0,
                                         !.predv = "unset",
                                         !.arrived = IF waits THEN @ + 1 ELSE @]
                          ELSE h]

\* return dataset (lines 274 and 276)
Return(r, value, predv) ==
    Resume(r,
           [loc[r] EXCEPT !.pc = loc[r].cont, !.dataset = value, !.access = ""],
           [hist[r] EXCEPT !.predv = predv,
                           !.last = [id |-> hist[r].ncall, ret |-> value,
                                     predv |-> predv, inv |-> hist[r].inv,
                                     obj |-> loc[r].call]])

\* dataset = cls(*args) begins (lines 258, 272 and 276)
StartBuilder(r, at, predv) ==
    /\ loc' = [loc EXCEPT ![r] = [@ EXCEPT !.pc = at,
                                            !.access = CacheAccess(Artifact(r))]]
    /\ hist' = [hist EXCEPT ![r] = [@ EXCEPT !.inv = @ + 1, !.predv = predv]]
    /\ cache' = IF CacheAccess(Artifact(r)) = "write"
                THEN [cache EXCEPT !.partial = @ \cup {Artifact(r)}]
                ELSE cache

\* torch.distributed.barrier() is entered (line 268)
Arrive(r, l, predv) ==
    /\ loc' = [loc EXCEPT ![r] = [l EXCEPT !.pc = "barrier"]]
    /\ hist' = [hist EXCEPT ![r] = [@ EXCEPT !.arrived = @ + 1, !.predv = predv]]

\* build(): up to the first build_generic_dataset call
Start(r) ==
    /\ r \in Procs
    /\ loc[r].pc = "L70"
    /\ Resume(r, loc[r], hist[r])
    /\ UNCHANGED <<config, pred, flips, cache, released, pin, pout>>

\* lines 256-268: the first builder asks is_built_on_rank() and builds
\* before it enters the barrier
GenPre(r) ==
    /\ config.dist
    /\ loc[r].pc = "call"
    /\ \E v \in PredValues(r) :
          /\ Answer(r, v)
          /\ IF v = "true"
             THEN StartBuilder(r, "build0", v)
             ELSE Arrive(r, loc[r], v) /\ cache' = cache
    /\ UNCHANGED <<config, released, pin, pout>>

\* the barrier lets the ranks through when every rank of the group is in it
BarrierRelease ==
    /\ config.dist
    /\ \A r \in Ranks : loc[r].pc = "barrier"
    /\ loc' = [r \in Ranks |-> [loc[r] EXCEPT !.pc = "post"]]
    /\ released' = released + 1
    /\ UNCHANGED <<config, pred, flips, cache, hist, pin, pout>>

\* lines 270-274: the other ranks build after the barrier
GenPost(r) ==
    /\ loc[r].pc = "post"
    /\ IF IsLateBuilder(r)
       THEN \E v \in PredValues(r) :
               /\ Answer(r, v)
               /\ IF v = "true"
                  THEN StartBuilder(r, "buildN", v)
                  ELSE Return(r, loc[r].dataset, v) /\ cache' = cache
       ELSE Return(r, loc[r].dataset, hist[r].predv) /\ UNCHANGED <<pred, flips, cache>>
    /\ UNCHANGED <<config, released, pin, pout>>

\* line 276: no process group, the process builds locally
GenLocal(r) ==
    /\ ~config.dist
    /\ loc[r].pc = "call"
    /\ StartBuilder(r, "buildL", "unset")
    /\ UNCHANGED <<config, pred, flips, released, pin, pout>>

\* cls(*args) returns the dataset; the artifact it wrote is complete
BuildOk(r) ==
    /\ loc[r].pc \in {"build0", "buildN", "buildL"}
    /\ cache' = IF loc[r].access = "write"
                THEN [cache EXCEPT !.partial = @ \ {Artifact(r)},
                                   !.complete = @ \cup {Artifact(r)}]
                ELSE cache
    /\ IF loc[r].pc = "build0"
       THEN Arrive(r, [loc[r] EXCEPT !.dataset = loc[r].call, !.access = ""],
                   hist[r].predv)
       ELSE Return(r, loc[r].call, hist[r].predv)
    /\ UNCHANGED <<config, pred, flips, released, pin, pout>>

\* the OSError of the rank-0 step is swallowed: the rank goes on to the
\* barrier without a dataset
BuildFailSwallowed(r) ==
    /\ loc[r].pc \in {"build0", "buildN", "buildL"}
    /\ loc' = [loc EXCEPT ![r] =
                  IF loc[r].pc = "build0"
                  THEN [@ EXCEPT !.pc = "barrier", !.access = ""]
                  ELSE [@ EXCEPT !.pc = "raised", !.access = "",
                                 !.err = "OSError"]]
    /\ hist' = [hist EXCEPT ![r] =
                    [@ EXCEPT !.fail = [id |-> hist[r].ncall, at |-> loc[r].pc,
                                        access |-> loc[r].access],
                              !.arrived = IF loc[r].pc = "build0"
                                          THEN @ + 1 ELSE @]]
    /\ UNCHANGED <<config, pred, flips, cache, released, pin, pout>>

\* cls(*args) raises OSError: wrapped in the rank-0 step (lines 259-266),
\* raised as it is at lines 272 and 276
BuildFail(r) ==
    /\ loc[r].pc \in {"build0", "buildN", "buildL"}
    /\ loc' = [loc EXCEPT ![r] =
                  [@ EXCEPT !.pc = "raised", !.access = "",
                            !.err = IF loc[r].pc = "build0"
                                    THEN "Exception from OSError"
                                    ELSE "OSError"]]
    /\ hist' = [hist EXCEPT ![r] =
                    [@ EXCEPT !.fail = [id |-> hist[r].ncall, at |-> loc[r].pc,
                                        access |-> loc[r].access]]]
    /\ UNCHANGED <<config, pred, flips, cache, released, pin, pout>>

\* ------------------------------------------------------ configurations
\* a blend of n tokens: at an odd place k the weight k or the weight 0, at
\* an even place k the prefix k / 2; a blend of one token is a prefix
BlendsOfLen(n) ==
    IF n = 1
    THEN {<<1>>}
    ELSE {b \in [1 .. n -> 0 .. n] :
            \A k \in 1 .. n : IF k % 2 = 1 THEN b[k] \in {0, k}
                                           ELSE b[k] = k \div 2}

SharedBlends == UNION {BlendsOfLen(n) : n \in 1 .. MaxBlendLen}

\* config.split_matrix, in RatioDen-ths
SplitMatrices ==
    {<<<<0, RatioDen - 2>>, <<RatioDen - 2, RatioDen>>, <<>>>>,
     <<<<>>, <<0, RatioDen>>, <<>>>>}

TargetSizes == {<<100, 0, 50>>}

PerSplitBlends ==
    {<<<<1>>, <<>>, <<1>>>>,
     <<<<1, 1>>, <<1>>, <<>>>>,
     <<<<>>, <<1, 1, 3, 2>>, <<>>>>,
     <<<<1>>, <<1, 1, 3, 2>>, <<>>>>,
     <<<<1>>, <<1, 1, 3>>, <<>>>>,
     <<<<1, 1, 3>>, <<1>>, <<>>>>,
     <<<<>>, <<1>>, <<0, 1, 0, 2>>>>,
     <<<<>>, <<>>, <<>>>>}

Configs ==
    {[dist |-> d, blend |-> b, split |-> m, blend_per_split |-> <<>>,
      sizes |-> t] :
        d \in BOOLEAN, b \in SharedBlends, m \in SplitMatrices,
        t \in TargetSizes}
    \cup
    {[dist |-> d, blend |-> <<>>, split |-> <<>>, blend_per_split |-> p,
      sizes |-> t] :
        d \in BOOLEAN, p \in PerSplitBlends, t \in TargetSizes}

InitHist ==
    [ncall |-> 0, arrived |-> 0, inv |-> 0, predv |-> "unset",
     last |-> [id |-> 0, ret |-> None, predv |-> "unset", inv |-> 0,
               obj |-> None],
     fail |-> [id |-> 0, at |-> "", access |-> ""]]

\* the builder is constructed on every rank; nothing has been built
Init ==
    /\ config \in Configs
    /\ loc = [r \in Ranks |->
                IF r \in Procs THEN InitLocal ELSE [InitLocal EXCEPT !.pc = "off"]]
    /\ pred = [r \in Ranks |-> "unset"]
    /\ flips = 0
    /\ cache = [partial |-> {}, complete |-> {}]
    /\ hist = [r \in Ranks |-> InitHist]
    /\ released = 0
    /\ pin = <<>>
    /\ pout = <<>>

Next ==
    \/ \E r \in Ranks : Start(r)
    \/ \E r \in Ranks : GenPre(r)
    \/ BarrierRelease
    \/ \E r \in Ranks : GenPost(r)
    \/ \E r \in Ranks : GenLocal(r)
    \/ \E r \in Ranks : BuildOk(r)
    \/ \E r \in Ranks : BuildFail(r)

Spec == Init /\ [][Next]_vars

\* ------------------------------------ the pure functions on their own
\* no build() runs: only pin and pout change
NoBuild ==
    /\ config = [dist |-> FALSE, blend |-> <<>>, split |-> <<>>,
                 blend_per_split |-> <<>>, sizes |-> <<>>]
    /\ loc = [r \in Ranks |-> [InitLocal EXCEPT !.pc = "off"]]
    /\ pred = [r \in Ranks |-> "unset"]
    /\ flips = 0
    /\ cache = [partial |-> {}, complete |-> {}]
    /\ hist = [r \in Ranks |-> InitHist]
    /\ released = 0

\* the ratio matrices whose defined entries partition [0, 1]: the splits in
\* defined get, in order, the pieces between 0, the cuts and 1
PlaceIn(defined, s) == Cardinality({t \in defined : t <= s})

Boundary(cuts, j) ==
    IF j = 0 THEN 0
    ELSE IF j > Len(cuts) THEN RatioDen
    ELSE cuts[j]

PartitionMatrix(defined, cuts) ==
    [s \in Splits |->
        IF s \in defined
        THEN <<Boundary(cuts, PlaceIn(defined, s) - 1),
               Boundary(cuts, PlaceIn(defined, s))>>
        ELSE <<>>]

PartitionMatrices ==
    UNION {{PartitionMatrix(defined, cuts) :
                cuts \in {c \in [1 .. (Cardinality(defined) - 1) -> 0 .. RatioDen] :
                            \A j \in 1 .. (Len(c) - 1) : c[j] <= c[j + 1]}} :
           defined \in (SUBSET Splits) \ {{}}}

InitRanges ==
    /\ NoBuild
    /\ pin \in [n : 0 .. MaxElements, split : PartitionMatrices]
    /\ pout = <<>>

\* lines 197-208 on an indexed dataset of pin.n elements
ComputeRanges ==
    /\ pout = <<>>
    /\ pout' = SplitIndices([kind |-> "Indexed", prefix |-> 1, n |-> pin.n],
                            pin.split)
    /\ UNCHANGED <<config, loc, pred, flips, cache, hist, released, pin>>

SpecRanges == InitRanges /\ [][ComputeRanges]_vars

\* blends of positive weights, and target vectors
AllocBlends ==
    {b \in UNION {[1 .. n -> 1 .. (MaxWeight + MaxBlendLen)] :
                      n \in {k \in 2 .. MaxBlendLen : k % 2 = 0}} :
        \A k \in DOMAIN b : IF k % 2 = 1 THEN b[k] \in 1 .. MaxWeight
                                         ELSE b[k] = k \div 2}

AllocTargets == {0, 1, 7, 100, 199, 1000}

InitAlloc ==
    /\ NoBuild
    /\ pin \in [blend : AllocBlends, targets : [Splits -> AllocTargets]]
    /\ pout = <<>>

\* _get_prefixes_weights_and_sizes_for_blend(blend, targets)
ComputeAlloc ==
    /\ pout = <<>>
    /\ pout' = GetPrefixesWeightsAndSizes(pin.blend, pin.targets)
    /\ UNCHANGED <<config, loc, pred, flips, cache, hist, released, pin>>

SpecAlloc == InitAlloc /\ [][ComputeAlloc]_vars

\* ----------------------------------------------------------- claims
Building(r) == loc[r].pc \in {"build0", "buildN", "buildL"}

\* C1: in a process group no rank other than 0 is in its builder for the
\* k-th build_generic_dataset call unless every rank has entered the k-th
\* barrier, the barrier has been released and rank 0 is through its own
\* builder invocation for that call; and while rank 0 is in its builder for
\* call k the k-th barrier has not been released.
C1_BuildOrder ==
    config.dist =>
        /\ \A r \in Ranks \ {0} :
              Building(r) =>
                 /\ \A q \in Ranks : hist[q].arrived >= hist[r].ncall
                 /\ released >= hist[r].ncall
                 /\ hist[0].ncall >= hist[r].ncall
                 /\ ~(hist[0].ncall = hist[r].ncall
                        /\ loc[0].pc \in {"call", "build0"})
        /\ Building(0) => released < hist[0].ncall

\* rank 0 has built for a call past the first, is still behind the barrier's
\* release, and another rank is in its builder for the same call
C1_Witness ==
    /\ config.dist
    /\ \E r \in Ranks \ {0} :
          /\ loc[r].pc = "buildN"
          /\ hist[r].ncall >= 2
          /\ loc[0].pc = "post"
          /\ hist[0].ncall = hist[r].ncall
          /\ hist[0].inv = 1

\* C2: a build_generic_dataset call that has returned returned None exactly
\* when the process group is initialized and is_built_on_rank() was false
\* on the rank; in every other case the builder was invoked once in the
\* call and what it constructed was returned; None is returned without a
\* builder invocation.
C2_NoneIffNotBuiltOnRank ==
    \A r \in Procs :
        hist[r].last.id > 0 =>
            /\ IsNone(hist[r].last.ret)
                  <=> (config.dist /\ hist[r].last.predv = "false")
            /\ ~IsNone(hist[r].last.ret) =>
                  /\ hist[r].last.inv = 1
                  /\ hist[r].last.ret = hist[r].last.obj
            /\ IsNone(hist[r].last.ret) => hist[r].last.inv = 0

\* two ranks have returned from the same call, rank 0 with a dataset and
\* rank 1 with None
C2_Witness ==
    /\ config.dist
    /\ hist[0].last.id > 0
    /\ hist[1].last.id = hist[0].last.id
    /\ ~IsNone(hist[0].last.ret)
    /\ hist[0].last.predv = "true"
    /\ IsNone(hist[1].last.ret)
    /\ hist[1].last.predv = "false"

\* C3: in a process group a cache artifact is written only by rank 0, is
\* not written again once it is complete, and while a rank writes it no
\* other rank reads or writes it.
C3_CacheWrittenOnceByRankZero ==
    config.dist =>
        \A r \in Ranks :
            (Building(r) /\ loc[r].access = "write") =>
                /\ r = 0
                /\ Artifact(r) \notin cache.complete
                /\ \A q \in Ranks \ {r} :
                      ~(Building(q) /\ Artifact(q) = Artifact(r))

\* the number of build_generic_dataset calls, one barrier each, that build()
\* makes under the configuration: one per indexed dataset, one per view of
\* a defined split, one per composite
DefinedSplits == Cardinality({s \in Splits : config.split[s] # <<>>})

CallsOfBlend(blend, k) ==
    IF blend = <<>> THEN 0
    ELSE IF Len(blend) = 1 THEN 1 + k
    ELSE (Len(blend) \div 2) * (1 + k) + k

ExpectedBarriers ==
    IF ModeA
    THEN CallsOfBlend(config.blend, DefinedSplits)
    ELSE SumSeq([s \in Splits |-> CallsOfBlend(config.blend_per_split[s], 1)])

AllReturned == \A r \in Procs : loc[r].pc = "returned"

BuilderFailed == \E r \in Procs : hist[r].fail.id > 0

ConfigRefused == \E r \in Procs : loc[r].pc = "raised" /\ loc[r].err = "config"

\* a rank waits in a barrier that some rank of the group will never enter,
\* having returned from build() or raised
BlockedForEver ==
    /\ \E r \in Ranks : loc[r].pc = "barrier"
    /\ \E q \in Ranks : loc[q].pc \in {"returned", "raised"}

C5_RankZeroFailureIsFatal ==
    (config.dist /\ hist[0].fail.at = "build0") =>
        /\ loc[0].pc = "raised"
        /\ loc[0].err = "Exception from OSError"
        /\ hist[0].last.id < hist[0].fail.id
        /\ hist[0].arrived = hist[0].fail.id - 1
        /\ released < hist[0].fail.id
        /\ \A r \in Ranks \ {0} :
              /\ hist[r].ncall <= hist[0].fail.id
              /\ hist[r].ncall = hist[0].fail.id =>
                    (loc[r].pc = "barrier" /\ hist[r].inv = 0)

\* rank 0's builder has failed in a call past the first and another rank
\* waits in that call's barrier
C5_Witness ==
    /\ config.dist
    /\ hist[0].fail.at = "build0"
    /\ hist[0].fail.id >= 2
    /\ \E r \in Ranks \ {0} :
          loc[r].pc = "barrier" /\ hist[r].ncall = hist[0].fail.id

\* C6: when the builder invocation that writes an artifact for the first
\* time fails with OSError, the error build() raises is the wrapping
\* exception with the cache-directory guidance, on every rank and without a
\* process group too.
C6_FirstBuildFailureIsWrapped ==
    \A r \in Procs :
        (hist[r].fail.id > 0 /\ hist[r].fail.access = "write") =>
            (loc[r].pc = "raised" /\ loc[r].err = "Exception from OSError")

Mixed(lst) ==
    /\ \E k \in DOMAIN lst : IsNone(lst[k])
    /\ \E k \in DOMAIN lst : ~IsNone(lst[k])

\* C7: with a shared blend of several datasets no composite is constructed
\* for a split from a list of views that holds a None and a view, in
\* whatever order: build() raises the assertion error instead.
C7_MixedListRaises ==
    \A r \in Procs :
        (ModeA /\ loc[r].call.kind = "Blended") =>
            ~Mixed(loc[r].call.datasets)

\* C8: when build() raises for a malformed blend, the rank has made no
\* build_generic_dataset call: no builder invoked, no barrier entered.
C8_ConfigErrorBeforeIO ==
    \A r \in Procs :
        (loc[r].pc = "raised" /\ loc[r].err = "config") =>
            (hist[r].ncall = 0 /\ hist[r].arrived = 0)

DefinedIn(m) == {s \in Splits : m[s] # <<>>}

\* C9: for a ratio matrix whose defined entries partition [0, 1] and an
\* element count n, the ranges [round(b * n), round(e * n)) are pairwise
\* disjoint, hold no index >= n and together are exactly 0 .. n - 1; an
\* absent ratio gives an absent range, and beg = end an empty one.
C9_RangesPartition ==
    pout # <<>> =>
        /\ \A s \in Splits : IsNone(pout[s]) <=> pin.split[s] = <<>>
        /\ \A s \in DefinedIn(pin.split) :
              /\ pout[s].beg <= pout[s].end
              /\ RangeSet(pout[s]) \subseteq 0 .. (pin.n - 1)
        /\ \A s, t \in DefinedIn(pin.split) :
              s # t => RangeSet(pout[s]) \cap RangeSet(pout[t]) = {}
        /\ UNION {RangeSet(pout[s]) : s \in DefinedIn(pin.split)}
              = 0 .. (pin.n - 1)

\* three defined splits over seven elements or more, the first boundary
\* not a whole number of elements, one range empty
C9_Witness ==
    /\ pout # <<>>
    /\ pin.n >= 7
    /\ DefinedIn(pin.split) = Splits
    /\ (pin.split[1][2] * pin.n) % RatioDen # 0
    /\ \E s \in Splits : pout[s].beg = pout[s].end
    /\ \E s \in Splits : pout[s].beg + 1 < pout[s].end

\* C10: for a blend of positive weights, the size allocated to dataset d
\* for split s is the least integer that is at least
\* targets[s] * (w_d / sum of the weights) * 1.005, and it is at least
\* targets[s] * (w_d / sum of the weights), hence at least its ceiling.
C10_OversampledCeil ==
    pout # <<>> =>
        /\ pout.ok
        /\ Len(pout.sizes) = Len(pin.blend) \div 2
        /\ \A d \in DOMAIN pout.sizes : \A s \in Splits :
              LET w == pin.blend[2 * d - 1]
                  total == SumSeq(BlendWeights(pin.blend))
                  a == pout.sizes[d][s]
              IN  /\ a * total * 1000 >= pin.targets[s] * w * 1005
                  /\ (a - 1) * total * 1000 < pin.targets[s] * w * 1005
                  /\ a * total >= pin.targets[s] * w

\* two datasets of different weights, and a size the margin makes larger
\* than the ceiling of the weighted target
C10_Witness ==
    /\ pout # <<>>
    /\ Len(pin.blend) = 4
    /\ pin.blend[1] # pin.blend[3]
    /\ \E d \in DOMAIN pout.sizes : \E s \in Splits :
          pout.sizes[d][s] >
             CeilDiv(pin.targets[s] * pin.blend[2 * d - 1],
                     SumSeq(BlendWeights(pin.blend)))

\* is_built_on_rank() has answered true whenever rank r asked it, or there
\* is no process group
BuildsAll(r) == ~config.dist \/ (flips = 0 /\ pred[r] # "false")

\* rank r is inside a build_generic_dataset call
InGeneric(r) ==
    loc[r].pc \in {"call", "build0", "barrier", "post", "buildN", "buildL"}

\* v is the view of split i over the whole of the dataset at prefix
WholeView(v, prefix, i) ==
    /\ v.kind = "View"
    /\ v.split = i
    /\ v.indexed = [kind |-> "Indexed", prefix |-> prefix,
                    n |-> ElementCount(prefix)]
    /\ v.indices = [kind |-> "Range", beg |-> 0, end |-> ElementCount(prefix)]

\* C11: with blend_per_split, on a rank that builds its datasets, output[i]
\* is None exactly when blend_per_split[i] is empty; otherwise it is built
\* only from the prefixes of blend_per_split[i], each as the view of split i
\* over the whole dataset; while split i is built the ratio is (0, 1) at i
\* and absent elsewhere, the targets are zero at every other split, and no
\* view of another split is asked for.
C11_PerSplitOutput ==
    \A r \in Procs :
        (~ModeA /\ BuildsAll(r)) =>
            LET l == loc[r]
            IN  /\ (InGeneric(r) /\ l.call.kind \in {"Indexed", "View"}) =>
                      \A s \in Splits :
                          IF s = l.i
                          THEN MSplit(l)[s] = <<0, RatioDen>>
                          ELSE MSplit(l)[s] = <<>> /\ MSizes(l)[s] = 0
                /\ (InGeneric(r) /\ l.call.kind = "View") =>
                      /\ WholeView(l.call, MPrefix(l), l.i)
                      /\ MPrefix(l) \in
                            {CurBlend(l)[k] : k \in {h \in DOMAIN CurBlend(l) :
                                                h = Len(CurBlend(l)) \/ h % 2 = 0}}
                /\ l.pc = "returned" =>
                      /\ Len(l.out) = NumSplits
                      /\ \A i \in Splits :
                            LET b == config.blend_per_split[i]
                            IN  CASE b = <<>> -> IsNone(l.out[i])
                                  [] Len(b) = 1 ->
                                        /\ WholeView(l.out[i], b[1], i)
                                        /\ l.out[i].size = config.sizes[i]
                                  [] OTHER ->
                                        /\ l.out[i].kind = "Blended"
                                        /\ Len(l.out[i].datasets) = Len(b) \div 2
                                        /\ \A k \in DOMAIN l.out[i].datasets :
                                              WholeView(l.out[i].datasets[k],
                                                        b[2 * k], i)

\* a rank of a process group has returned a whole-dataset view for the
\* first split, a composite of two such views for the second and None for
\* the third
C11_Witness ==
    \E r \in Procs :
        /\ config.dist
        /\ BuildsAll(r)
        /\ config.blend_per_split = <<<<1>>, <<1, 1, 3, 2>>, <<>>>>
        /\ loc[r].pc = "returned"
        /\ loc[r].out[1].kind = "View"
        /\ loc[r].out[2].kind = "Blended"
        /\ IsNone(loc[r].out[3])

\* x, an entry of the list build() returns, stands at the place of split s
EntryOfSplit(x, s) ==
    CASE x.kind = "View" -> x.split = s
      [] x.kind = "Blended" ->
            \A k \in DOMAIN x.datasets :
                IsNone(x.datasets[k]) \/
                    (x.datasets[k].kind = "View" /\ x.datasets[k].split = s)
      [] OTHER -> IsNone(x)

\* C12: a build() that returns, in either mode and on any rank, returns
\* len(Split) entries, the s-th of them for split s; with a shared blend the
\* entry of a split whose ratio is absent is None; and an AssertionError is
\* never raised at a split whose ratio is absent (line 103).
C12_OutputShape ==
    \A r \in Procs :
        LET l == loc[r]
        IN  /\ l.pc = "returned" =>
                  /\ Len(l.out) = NumSplits
                  /\ \A s \in Splits : EntryOfSplit(l.out[s], s)
                  /\ ModeA =>
                        \A s \in Splits :
                            config.split[s] = <<>> => IsNone(l.out[s])
            /\ (ModeA /\ l.pc = "raised" /\ l.err = "assert") =>
                  config.split[l.i] # <<>>

\* a rank has returned from a build of a two-dataset shared blend whose
\* third ratio is absent: the assertion of line 103 was passed, the first
\* entry is a composite and the third is None
C12_Witness ==
    \E r \in Procs :
        /\ Len(config.blend) = 4
        /\ config.split[3] = <<>>
        /\ config.split[1] # <<>>
        /\ loc[r].pc = "returned"
        /\ Len(loc[r].lists[3]) = 2
        /\ loc[r].out[1].kind = "Blended"
        /\ IsNone(loc[r].out[3])

\* the blend and the ratio that govern entry s of the list build() returns
BlendOf(s) == IF ModeA THEN config.blend ELSE config.blend_per_split[s]

RatioOf(s) == IF ModeA THEN config.split[s] ELSE <<0, RatioDen>>

\* the indices [round(b * n), round(e * n)) of a ratio (b, e) over the
\* dataset at prefix
MemberRange(prefix, ratio) ==
    [kind |-> "Range",
     beg |-> RoundDiv(ratio[1] * ElementCount(prefix), RatioDen),
     end |-> RoundDiv(ratio[2] * ElementCount(prefix), RatioDen)]

\* C13: on a rank that builds its datasets, a blend of length 1 yields for
\* every defined split a view that is not wrapped in a composite, a blend of
\* one weight and one prefix yields a composite of one member view with the
\* weight 1.0, and the indices of both are the same function of the dataset
\* and the ratio alone; where one build() takes both paths on the same
\* dataset and ratio the two index ranges are equal.
C13_SinglePathMatchesOneWeightPath ==
    \A r \in Procs :
        (BuildsAll(r) /\ loc[r].pc = "returned") =>
            /\ \A s \in Splits :
                  LET b == BlendOf(s)
                      x == loc[r].out[s]
                  IN  (b # <<>> /\ RatioOf(s) # <<>>) =>
                          /\ Len(b) = 1 =>
                                /\ x.kind = "View"
                                /\ x.indices = MemberRange(b[1], RatioOf(s))
                          /\ Len(b) = 2 =>
                                /\ x.kind = "Blended"
                                /\ Len(x.datasets) = 1
                                /\ x.weights = <<<<b[1], b[1]>>>>
                                /\ x.datasets[1].kind = "View"
                                /\ x.datasets[1].indices =
                                      MemberRange(b[2], RatioOf(s))
            /\ \A s, t \in Splits :
                  (/\ Len(BlendOf(s)) = 1
                   /\ Len(BlendOf(t)) = 2
                   /\ BlendOf(s)[1] = BlendOf(t)[2]
                   /\ RatioOf(s) = RatioOf(t)
                   /\ RatioOf(s) # <<>>) =>
                      loc[r].out[s].indices = loc[r].out[t].datasets[1].indices

\* one build() has returned the unwrapped view of dataset 1 for the second
\* split and, for the first, a composite whose one member is a view of the
\* same dataset
C13_Witness ==
    \E r \in Procs :
        /\ config.dist
        /\ BuildsAll(r)
        /\ config.blend_per_split = <<<<1, 1>>, <<1>>, <<>>>>
        /\ loc[r].pc = "returned"
        /\ loc[r].out[2].kind = "View"
        /\ loc[r].out[1].kind = "Blended"
        /\ loc[r].out[1].datasets[1].kind = "View"

\* C14: in both modes, whenever the BlendedDataset constructor is invoked
\* on a rank, the list of member views it receives holds no None or only
\* None, whatever is_built_on_rank answered on that rank.
C14_CompositeMembersAllOrNone ==
    \A r \in Procs :
        (Building(r) /\ loc[r].call.kind = "Blended") =>
            ~Mixed(loc[r].call.datasets)

\* C15: for a blend of positive weights, every split s and every dataset d,
\* the size allocated to d for s is at least w_d * C_s, where w_d is the
\* normalized weight of d and C_s, the size handed to the composite of s, is
\* the sum over the datasets of the sizes allocated for s.
C15_AllocationCoversWeightedShare ==
    (pout # <<>> /\ pout.ok) =>
        \A d \in DOMAIN pout.sizes : \A s \in Splits :
            pout.sizes[d][s] * pout.weights[d][2] >=
                pout.weights[d][1] * SizePerSplit(pout.sizes)[s]

\* x, the composite of split s, has a size that is the sum of the sizes its
\* member views were built with, at least the size asked for split s, and
\* zero when that is zero
CompositeTargetOk(x, s) ==
    /\ x.size >= config.sizes[s]
    /\ config.sizes[s] = 0 => x.size = 0
    /\ (\A k \in DOMAIN x.datasets : ~IsNone(x.datasets[k])) =>
          x.size = SumSeq([k \in DOMAIN x.datasets |-> x.datasets[k].size])

\* C16: the size passed to the BlendedDataset of split s, with a shared
\* blend and with blend_per_split alike, is the sum of the sizes allocated
\* to the datasets for s, is at least sizes[s], and is 0 when sizes[s] is 0.
C16_CompositeTargetCoversRequest ==
    \A r \in Procs :
        /\ (InGeneric(r) /\ loc[r].call.kind = "Blended") =>
              CompositeTargetOk(loc[r].call, loc[r].i)
        /\ loc[r].pc = "returned" =>
              \A s \in Splits :
                  loc[r].out[s].kind = "Blended" =>
                      CompositeTargetOk(loc[r].out[s], s)

\* the BlendedDataset of a split with a positive target is being built from
\* two member views, with a size above the target
C16_Witness ==
    \E r \in Procs :
        /\ Building(r)
        /\ loc[r].call.kind = "Blended"
        /\ Len(loc[r].call.datasets) = 2
        /\ ~IsNone(loc[r].call.datasets[1])
        /\ ~IsNone(loc[r].call.datasets[2])
        /\ config.sizes[loc[r].i] > 0
        /\ loc[r].call.size > config.sizes[loc[r].i]

\* x, the composite of split s of blend b: as many members and weights as b
\* has datasets; the k-th weight is the k-th weight of b over the sum of the
\* weights; the k-th member, where there is one, is a view of split s built
\* with the least integer that is at least sizes[s] * w_k * 1.005, over the
\* indexed dataset, where there is one, of the k-th prefix of b
Aligned(x, b, s) ==
    LET total == SumSeq([k \in 1 .. (Len(b) \div 2) |-> b[2 * k - 1]])
    IN  /\ Len(x.datasets) = Len(b) \div 2
        /\ Len(x.weights) = Len(b) \div 2
        /\ \A k \in 1 .. (Len(b) \div 2) :
              LET v == x.datasets[k]
                  share == config.sizes[s] * b[2 * k - 1] * MarginNum
              IN  /\ x.weights[k] = <<b[2 * k - 1], total>>
                  /\ ~IsNone(v) =>
                        /\ v.kind = "View"
                        /\ v.split = s
                        /\ v.size * total * MarginDen >= share
                        /\ (v.size - 1) * total * MarginDen < share
                        /\ ~IsNone(v.indexed) => v.indexed.prefix = b[2 * k]

\* C17: in every composite of a blend of several datasets the k-th member
\* view was built from the k-th prefix of the blend with the size allocated
\* to the k-th dataset for that split, and stands beside the k-th normalized
\* weight; no member is moved, dropped or doubled.
C17_MembersAlignedWithWeights ==
    \A r \in Procs :
        /\ (InGeneric(r) /\ loc[r].call.kind = "Blended") =>
              Aligned(loc[r].call, BlendOf(loc[r].i), loc[r].i)
        /\ loc[r].pc = "returned" =>
              \A s \in Splits :
                  loc[r].out[s].kind = "Blended" =>
                      Aligned(loc[r].out[s], BlendOf(s), s)

\* the BlendedDataset of a shared blend of two datasets with different
\* weights is being built from the views of both
C17_Witness ==
    \E r \in Procs :
        /\ ModeA
        /\ Building(r)
        /\ loc[r].call.kind = "Blended"
        /\ Len(loc[r].call.datasets) = 2
        /\ loc[r].call.weights[1] # loc[r].call.weights[2]
        /\ \A k \in 1 .. 2 :
              /\ ~IsNone(loc[r].call.datasets[k])
              /\ ~IsNone(loc[r].call.datasets[k].indexed)
        /\ loc[r].call.datasets[1].size # loc[r].call.datasets[2].size

\* C18: whenever the constructor of a per-split view (self.cls) is invoked
\* on a rank, the indexed dataset and the indices it receives are both not
\* None, in a process group too and whatever is_built_on_rank answers from
\* one build_generic_dataset call to the next.
C18_ViewBuiltOnIndexedDataset ==
    \A r \in Procs :
        (Building(r) /\ loc[r].call.kind = "View") =>
            (~IsNone(loc[r].call.indexed) /\ ~IsNone(loc[r].call.indices))

====
